---- MODULE Spec2Model ----
(***************************************************************************)
(* Proof submission widget: validation rules (lib/validation), the         *)
(* submission form's onSubmit pipeline with its two backend collaborators, *)
(* and the media viewer's zoom / rotate / pan state machine.               *)
(*                                                                         *)
(* JavaScript strings that the code inspects character by character (mime  *)
(* types, proof links) are sequences of one-character strings.  An         *)
(* optional value (T | undefined) is a sequence of length at most one:     *)
(* None is undefined, Some(v) is the value v.                              *)
(***************************************************************************)
EXTENDS Integers, Sequences, FiniteSets, TLC

\* ------------------------------------------------------------------ bounds
MaxLinkLen == 3      \* longest proof link drawn for the validation rules
MaxSubmits == 2      \* submit attempts explored by the form specification
MaxCoordIdx == 1     \* pointer coordinates are 0..MaxCoordIdx times CoordStep
CoordStep == 300     \* distance between two pointer coordinates

\* ------------------------------------------------------- optional values
None == <<>>
Some(v) == <<v>>
IsSome(o) == o # <<>>
Get(o) == o[1]

\* ------------------------------------------------------------ JS strings
StartsWith(s, p) == /\ Len(s) >= Len(p)
                    /\ SubSeq(s, 1, Len(p)) = p

\* truthiness of an optional string: undefined and "" are falsy
TruthyStr(o) == IsSome(o) /\ Get(o) # <<>>

\* truthiness of an optional message kept as a TLA+ string
TruthyMsg(o) == IsSome(o) /\ Get(o) # ""

ImagePrefix == <<"i", "m", "a", "g", "e", "/">>
VideoPrefix == <<"v", "i", "d", "e", "o", "/">>

MimePng == ImagePrefix \o <<"p", "n", "g">>
MimeMp4 == VideoPrefix \o <<"m", "p", "4">>
MimePdf == <<"a", "p", "p", "l", "i", "c", "a", "t", "i", "o", "n", "/", "p", "d", "f">>
MimeEmpty == <<>>
MimeImageNoSlash == <<"i", "m", "a", "g", "e">>
MimeTextImage == <<"t", "e", "x", "t", "/">> \o ImagePrefix
MimeUpperImage == <<"I", "m", "a", "g", "e", "/", "p", "n", "g">>

MimeTypes == {MimePng, MimeMp4, MimePdf, MimeEmpty, MimeImageNoSlash,
              MimeTextImage, MimeUpperImage}

\* --------------------------------------------------------- size limits
ImageMaxSize == 1 * 1024 * 1024
VideoMaxSize == 5 * 1024 * 1024

FileSizes == {0, ImageMaxSize - 1, ImageMaxSize, ImageMaxSize + 1,
              2 * ImageMaxSize, VideoMaxSize - 1, VideoMaxSize,
              VideoMaxSize + 1, 2 * VideoMaxSize}

\* a File object: the three properties the code reads
MkFile(n, t, s) == [name |-> n, type |-> t, size |-> s]

\* ------------------------------------------------- z.string().url()
\* new URL(val) with no base, over the alphabet LinkChars: surrounding
\* spaces are stripped, a scheme (a letter, then letters) must be followed
\* by ":", and when "//" follows, the authority up to the next "/" must be
\* a host without spaces, optionally followed by ":" and an empty port
\* (the alphabet has no digit); a ":" with no host before it fails.
LinkChars == {"h", ":", "/", " "}
Letters == {"h"}

RECURSIVE TrimLeft(_)
TrimLeft(s) == IF s # <<>> /\ Head(s) = " " THEN TrimLeft(Tail(s)) ELSE s

RECURSIVE TrimRight(_)
TrimRight(s) == IF s # <<>> /\ s[Len(s)] = " "
                THEN TrimRight(SubSeq(s, 1, Len(s) - 1)) ELSE s

Trim(s) == TrimRight(TrimLeft(s))

\* index of the first occurrence of c in s, 0 when there is none
IndexOf(s, c) == IF \E i \in 1..Len(s) : s[i] = c
                 THEN CHOOSE i \in 1..Len(s) :
                        /\ s[i] = c
                        /\ \A j \in 1..(i - 1) : s[j] # c
                 ELSE 0

AuthorityOk(a) ==
    LET colon == IndexOf(a, ":")
        host == IF colon = 0 THEN a ELSE SubSeq(a, 1, colon - 1)
        port == IF colon = 0 THEN <<>> ELSE SubSeq(a, colon + 1, Len(a))
    IN /\ \A i \in 1..Len(host) : host[i] # " "
       /\ colon # 0 => host # <<>>
       /\ port = <<>>

IsUrl(val) ==
    LET s == Trim(val)
        colon == IndexOf(s, ":")
        rest == SubSeq(s, colon + 1, Len(s))
        afterSlashes == SubSeq(rest, 3, Len(rest))
        slash == IndexOf(afterSlashes, "/")
        authority == IF slash = 0 THEN afterSlashes
                     ELSE SubSeq(afterSlashes, 1, slash - 1)
    IN /\ colon > 1
       /\ \A i \in 1..(colon - 1) : s[i] \in Letters
       /\ StartsWith(rest, <<"/", "/">>) => AuthorityOk(authority)

\* ------------------------------------------------------ addProofSchema
MissingInput == [path |-> "root", kind |-> "MissingInput"]
InvalidUrl == [path |-> "proofLink", kind |-> "InvalidUrl"]
UnsupportedFileType == [path |-> "file", kind |-> "UnsupportedFileType"]
FileTooLarge == [path |-> "file", kind |-> "FileTooLarge"]

\* mutant: only undefined skips the URL check, "" does not
ProofLinkRefine_NoEmptyGuard(proofLink) ==
    IsSome(proofLink) => IsUrl(Get(proofLink))

\* proofLink: z.string().optional().refine(!val || url(val))
ProofLinkRefine(proofLink) ==
    \/ ~TruthyStr(proofLink)
    \/ IsUrl(Get(proofLink))

\* mutant: an empty link counts as a link
RootRefine_EmptyCounts(data) == IsSome(data.proofLink) \/ IsSome(data.file)

\* .refine((data) => data.proofLink || data.file, path root)
RootRefine(data) == TruthyStr(data.proofLink) \/ IsSome(data.file)

IsImage(type) == StartsWith(type, ImagePrefix)
IsVideo(type) == StartsWith(type, VideoPrefix)

MaxSizeFor(type) == IF IsImage(type) THEN ImageMaxSize ELSE VideoMaxSize

\* mutant: a file of exactly the limit is refused
FileRefine_StrictLimit(data) ==
    IF ~IsSome(data.file) THEN TRUE
    ELSE LET f == Get(data.file)
         IN IF ~IsImage(f.type) /\ ~IsVideo(f.type) THEN FALSE
            ELSE f.size < MaxSizeFor(f.type)

\* .refine((data) => ..., file type and size) : the predicate
FileRefine(data) ==
    IF ~IsSome(data.file) THEN TRUE
    ELSE LET f == Get(data.file)
         IN IF ~IsImage(f.type) /\ ~IsVideo(f.type) THEN FALSE
            ELSE f.size <= MaxSizeFor(f.type)

\* mutant: the size is looked at before the type
FileRefineIssue_SizeFirst(data) ==
    LET f == Get(data.file)
    IN IF f.size > MaxSizeFor(f.type) THEN FileTooLarge
       ELSE UnsupportedFileType

\* the issue the file refinement reports when its predicate fails
FileRefineIssue(data) ==
    LET f == Get(data.file)
    IN IF ~IsImage(f.type) /\ ~IsVideo(f.type) THEN UnsupportedFileType
       ELSE FileTooLarge

\* the issues of one parse: the refinements do not abort one another
Validate(data) ==
    (IF ProofLinkRefine(data.proofLink) THEN {} ELSE {InvalidUrl})
    \cup (IF RootRefine(data) THEN {} ELSE {MissingInput})
    \cup (IF FileRefine(data) THEN {} ELSE {FileRefineIssue(data)})

\* mutant: the form-level error does not block the submit
SubmitAllowed_IgnoresRoot(data) == {i \in Validate(data) : i.path # "root"} = {}

\* handleSubmit(onSubmit): onSubmit runs only when the resolver has no error
SubmitAllowed(data) == Validate(data) = {}


\* ------------------------------------------------------------------ state
VARIABLES
    \* validation rules applied to one candidate input
    vData,              \* the ProofInput handed to the schema
    vIssues,            \* None before the parse, Some(issues) after it
    \* FileUploadZone handed one candidate file
    offered,            \* None, or how the file came and what came
    \* Component (submission form)
    isOpen,             \* useState(false): the dialog is open
    formLink,           \* form value proofLink
    formFile,           \* form value file
    errors,             \* formState.errors, as a set of issues
    submissionResult,   \* useState(null)
    isSubmitting,       \* useState(false)
    showMediaViewer,    \* useState(false)
    pc,                 \* where onSubmit is: "idle", "upload" or "insert"
    data,               \* onSubmit's parameter while it runs, NoData otherwise
    fileUrl,            \* onSubmit's local fileUrl while it runs
    calls,              \* collaborator calls made by the latest submit
    storage,            \* objects held by the storage bucket
    db,                 \* ids of the rows of the proofs table
    alerts,             \* alert() calls of the latest submit
    dropAlert,          \* the alert() of the latest drop, None when it made none
    submits,            \* submit attempts so far
    \* MediaViewer
    imageScale,         \* in quarters: 4 is scale 1
    imageRotation,
    panPosition,
    isDragging,
    dragStart,
    isLoading

validVars == <<vData, vIssues, offered>>
formVars == <<isOpen, formLink, formFile, errors, submissionResult, isSubmitting,
              showMediaViewer, pc, data, fileUrl, calls, storage, db, alerts,
              dropAlert, submits>>
viewerVars == <<imageScale, imageRotation, panPosition, isDragging, dragStart,
                isLoading>>
vars == <<validVars, formVars, viewerVars>>

ScaleOne == 4

NoData == [proofLink |-> None, file |-> None]

ValidInit == /\ vData = NoData
             /\ vIssues = None
             /\ offered = None

FormInit == /\ isOpen = FALSE
            /\ formLink = None
            /\ formFile = None
            /\ errors = {}
            /\ submissionResult = None
            /\ isSubmitting = FALSE
            /\ showMediaViewer = FALSE
            /\ pc = "idle"
            /\ data = NoData
            /\ fileUrl = None
            /\ calls = <<>>
            /\ storage = {}
            /\ db = {}
            /\ alerts = <<>>
            /\ dropAlert = None
            /\ submits = 0

\* the useState defaults of a freshly mounted MediaViewer
ViewerInit == /\ imageScale = ScaleOne
              /\ imageRotation = 0
              /\ panPosition = [x |-> 0, y |-> 0]
              /\ isDragging = FALSE
              /\ dragStart = [x |-> 0, y |-> 0]
              /\ isLoading = TRUE

\* ------------------------------------------- the validation rules alone
SeqsUpTo(S, n) == UNION {[1..k -> S] : k \in 0..n}

CandidateLinks == {None} \cup {Some(s) : s \in SeqsUpTo(LinkChars, MaxLinkLen)}
CandidateFiles == {None} \cup
                  {Some(MkFile("f", t, s)) : t \in MimeTypes, s \in FileSizes}

InitValidate == /\ vData \in [proofLink : CandidateLinks, file : CandidateFiles]
                /\ vIssues = None
                /\ offered = None
                /\ FormInit
                /\ ViewerInit

\* addProofSchema.safeParse(vData)
RunValidation == /\ vIssues = None
                 /\ vIssues' = Some(Validate(vData))
                 /\ UNCHANGED <<vData, offered, formVars, viewerVars>>

NextValidate == RunValidation

SpecValidate == InitValidate /\ [][NextValidate]_vars


\* ------------------------------------------------- what the user can enter
GoodLink == <<"h", ":", "/", "/", "h">>
BadLink == <<"h", " ", "h">>
TypedLinks == {<<>>, BadLink, GoodLink}

PngSmall == MkFile("a.png", MimePng, ImageMaxSize)
PngLarge == MkFile("b.png", MimePng, 2 * ImageMaxSize)
Mp4Small == MkFile("c.mp4", MimeMp4, 2 * ImageMaxSize)
Mp4Large == MkFile("d.mp4", MimeMp4, VideoMaxSize + 1)
PdfSmall == MkFile("e.pdf", MimePdf, 0)
UserFiles == {PngSmall, PngLarge, Mp4Small, Mp4Large, PdfSmall}

\* messages an error object of a backend can carry
ErrorMessages == {"", "denied"}

\* ------------------------------------------------ uploadFileToSupabase
\* what supabase.storage.upload does: it stores the object, returns an
\* error object, or throws
StorageResponses ==
    {[kind |-> "ok", msg |-> ""], [kind |-> "throws", msg |-> ""]}
    \cup {[kind |-> "error", msg |-> m] : m \in ErrorMessages}

PublicUrl(key) == "proofs/" \o ToString(key)

UploadFileToSupabase(key, resp) ==
    IF resp.kind = "error" THEN [url |-> "", error |-> Some(resp.msg)]
    ELSE IF resp.kind = "throws"
         THEN [url |-> "", error |-> Some("Failed to upload file")]
         ELSE [url |-> PublicUrl(key), error |-> None]

\* ---------------------------------------------------- insertProofRecord
InsertProofRecord(resp) ==
    IF resp.kind = "error"
    THEN [success |-> FALSE, error |-> Some(resp.msg), id |-> None]
    ELSE IF resp.kind = "throws"
         THEN [success |-> FALSE, error |-> Some("Failed to save proof record"),
               id |-> None]
         ELSE [success |-> TRUE, error |-> None, id |-> Some(resp.id)]

\* what the insert call can do: the table assigns the next id, returns an
\* error object, or throws; the server action call itself can also reject,
\* with an Error ("rejected") or with another value ("rejectedValue")
DbResponses ==
    {[kind |-> "ok", id |-> Cardinality(db) + 1, msg |-> ""]}
    \cup {[kind |-> "error", id |-> 0, msg |-> m] : m \in ErrorMessages}
    \cup {[kind |-> k, id |-> 0, msg |-> "offline"] :
            k \in {"throws", "rejected", "rejectedValue"}}

\* ------------------------------------------------------------- onSubmit
\* if (uploadResult.error) ... if (uploadError)
UploadFailed(uploadResult) == TruthyMsg(uploadResult.error)

\* mutant: the failure is read off the message, as for the upload
InsertFailed_ByMessage(dbResult) == TruthyMsg(dbResult.error)

\* if (!dbResult.success)
InsertFailed(dbResult) == ~dbResult.success

OptName(file) == IF IsSome(file) THEN Some(Get(file).name) ELSE None
OptSize(file) == IF IsSome(file) THEN Some(Get(file).size) ELSE None
OptType(file) == IF IsSome(file) THEN Some(Get(file).type) ELSE None

\* const proofData: ProofSubmission = {...}
ProofData(d, url) ==
    [proofLink |-> d.proofLink, fileName |-> OptName(d.file), fileUrl |-> url,
     fileSize |-> OptSize(d.file), fileType |-> OptType(d.file)]

\* const result: SubmissionResult = {...}; submittedAt, the wall clock time
\* of the step, is left out
BuildResult(dbResult, d, url) ==
    [id |-> dbResult.id, proofLink |-> d.proofLink, fileName |-> OptName(d.file),
     fileUrl |-> url, fileSize |-> OptSize(d.file), fileType |-> OptType(d.file),
     status |-> "pending"]

UploadCall(file) == [op |-> "upload", arg |-> file, result |-> None]
InsertCall(proofData) == [op |-> "insert", arg |-> proofData, result |-> None]
Returned(log, resp) == [log EXCEPT ![Len(log)].result = Some(resp)]

Alert(text, msg) == [text |-> text, msg |-> msg]

\* what the dialog renders
FormViewShown == isOpen /\ ~IsSome(submissionResult)
SuccessViewShown == isOpen /\ IsSome(submissionResult)
ShowsLink == SuccessViewShown /\ TruthyStr(Get(submissionResult).proofLink)
ShowsFile == SuccessViewShown /\ TruthyMsg(Get(submissionResult).fileName)
ViewFileOffered == ShowsFile /\ TruthyMsg(Get(submissionResult).fileUrl)
\* mutant: the viewer is mounted for every result
MediaViewerMounted_NoUrlGuard == SuccessViewShown

MediaViewerMounted == /\ SuccessViewShown
                      /\ TruthyMsg(Get(submissionResult).fileUrl)
ViewerShown == MediaViewerMounted /\ showMediaViewer

\* reset() of react-hook-form: default values, no errors
FormReset == /\ formLink' = None
             /\ formFile' = None
             /\ errors' = {}

\* handleSubmit(onSubmit) up to the first await of onSubmit
Submit ==
    /\ FormViewShown
    /\ ~isSubmitting
    /\ submits < MaxSubmits
    /\ submits' = submits + 1
    /\ alerts' = <<>>
    /\ LET d == [proofLink |-> formLink, file |-> formFile]
       IN IF SubmitAllowed(d)
          THEN /\ errors' = {}
               /\ isSubmitting' = TRUE
               /\ data' = d
               /\ fileUrl' = None
               /\ IF IsSome(d.file)
                  THEN /\ pc' = "upload"
                       /\ calls' = <<UploadCall(Get(d.file))>>
                  ELSE /\ pc' = "insert"
                       /\ calls' = <<InsertCall(ProofData(d, None))>>
          ELSE /\ errors' = Validate(d)
               /\ calls' = <<>>
               /\ UNCHANGED <<isSubmitting, data, fileUrl, pc>>
    /\ UNCHANGED <<isOpen, formLink, formFile, submissionResult, showMediaViewer,
                   storage, db, dropAlert, validVars, viewerVars>>

\* mutant: the abort after a failed upload leaves the submitting flag
UploadReturns_KeepsFlag ==
    /\ pc = "upload"
    /\ \E resp \in StorageResponses :
         LET key == submits
             uploadResult == UploadFileToSupabase(key, resp)
         IN /\ storage' = IF resp.kind = "ok" THEN storage \cup {key} ELSE storage
            /\ IF UploadFailed(uploadResult)
               THEN /\ alerts' = Append(alerts, Alert("File upload failed: ",
                                                      Get(uploadResult.error)))
                    /\ calls' = Returned(calls, resp)
                    /\ pc' = "idle"
                    /\ data' = NoData
                    /\ UNCHANGED <<fileUrl, isSubmitting>>
               ELSE /\ fileUrl' = Some(uploadResult.url)
                    /\ calls' = Append(Returned(calls, resp),
                                       InsertCall(ProofData(data, Some(uploadResult.url))))
                    /\ pc' = "insert"
                    /\ UNCHANGED <<alerts, isSubmitting, data>>
    /\ UNCHANGED <<isOpen, formLink, formFile, errors, submissionResult,
                   showMediaViewer, db, dropAlert, submits, validVars,
                   viewerVars>>

\* onSubmit from the return of uploadFileToSupabase to the next await or return
UploadReturns ==
    /\ pc = "upload"
    /\ \E resp \in StorageResponses :
         LET key == submits
             uploadResult == UploadFileToSupabase(key, resp)
         IN /\ storage' = IF resp.kind = "ok" THEN storage \cup {key} ELSE storage
            /\ IF UploadFailed(uploadResult)
               THEN /\ alerts' = Append(alerts, Alert("File upload failed: ",
                                                      Get(uploadResult.error)))
                    /\ calls' = Returned(calls, resp)
                    /\ pc' = "idle"
                    /\ isSubmitting' = FALSE
                    /\ data' = NoData
                    /\ UNCHANGED fileUrl
               ELSE /\ fileUrl' = Some(uploadResult.url)
                    /\ calls' = Append(Returned(calls, resp),
                                       InsertCall(ProofData(data, Some(uploadResult.url))))
                    /\ pc' = "insert"
                    /\ UNCHANGED <<alerts, isSubmitting, data>>
    /\ UNCHANGED <<isOpen, formLink, formFile, errors, submissionResult,
                   showMediaViewer, db, dropAlert, submits, validVars,
                   viewerVars>>

\* onSubmit from the return of insertProofRecord to its end
InsertReturns ==
    /\ pc = "insert"
    /\ \E resp \in DbResponses :
         /\ calls' = Returned(calls, resp)
         /\ pc' = "idle"
         /\ isSubmitting' = FALSE
         /\ data' = NoData
         /\ fileUrl' = None
         /\ db' = IF resp.kind = "ok"
                  THEN db \cup {resp.id}
                  ELSE db
         /\ IF resp.kind \in {"rejected", "rejectedValue"}
            THEN /\ alerts' = Append(alerts, Alert("Submission failed: ",
                                IF resp.kind = "rejected" THEN resp.msg
                                ELSE "Unknown error"))
                 /\ UNCHANGED <<submissionResult, formLink, formFile, errors>>
            ELSE LET dbResult == InsertProofRecord(resp)
                 IN IF InsertFailed(dbResult)
                    THEN /\ alerts' = Append(alerts, Alert("Database error: ",
                                                           Get(dbResult.error)))
                         /\ UNCHANGED <<submissionResult, formLink, formFile, errors>>
                    ELSE /\ submissionResult' = Some(BuildResult(dbResult, data, fileUrl))
                         /\ FormReset
                         /\ UNCHANGED alerts
    /\ UNCHANGED <<isOpen, showMediaViewer, storage, dropAlert, submits, validVars,
                   viewerVars>>

\* ------------------------------------------------------- field changes
\* setValue(name, value, {shouldValidate: true}): the resolver runs on the
\* new values and the error of that field alone is replaced
FieldErrors(errs, name, values) ==
    {e \in errs : e.path # name} \cup {e \in Validate(values) : e.path = name}

\* if (errors.root && value) clearErrors("root"), errors being those rendered
ClearRoot(rendered, errs, truthy) ==
    IF truthy /\ \E e \in rendered : e.path = "root"
    THEN {e \in errs : e.path # "root"}
    ELSE errs

HandleFileChange(file) ==
    /\ formFile' = file
    /\ errors' = ClearRoot(errors,
                    FieldErrors(errors, "file", [proofLink |-> formLink, file |-> file]),
                    IsSome(file))

\* the user edits the link input
HandleLinkChange ==
    /\ FormViewShown
    /\ \E value \in TypedLinks :
         /\ formLink' = Some(value)
         /\ errors' = ClearRoot(errors,
                         FieldErrors(errors, "proofLink",
                                     [proofLink |-> Some(value), file |-> formFile]),
                         value # <<>>)
    /\ UNCHANGED <<isOpen, formFile, submissionResult, isSubmitting, showMediaViewer,
                   pc, data, fileUrl, calls, storage, db, alerts, dropAlert, submits,
                   validVars, viewerVars>>

\* ----------------------------------------------------- FileUploadZone
DropPayloads == {<<>>} \cup {<<f>> : f \in UserFiles}
                \cup {<<f, PngSmall>> : f \in UserFiles}

\* canDrop of useDrop: the payload has a first file of an image or video type
CanDrop(item) ==
    IF Len(item) = 0 THEN FALSE
    ELSE IsImage(item[1].type) \/ IsVideo(item[1].type)

\* handleFileDrop(item); react-dnd calls the drop handler of useDrop only for
\* a payload that canDrop accepts
FileDrop(item) ==
    IF ~CanDrop(item)
    THEN /\ dropAlert' = None
         /\ UNCHANGED <<formFile, errors>>
    ELSE IF Len(item) > 0
    THEN LET file == item[1]
         IN IF ~IsImage(file.type) /\ ~IsVideo(file.type)
            THEN /\ dropAlert' = Some("Please upload only image or video files")
                 /\ UNCHANGED <<formFile, errors>>
            ELSE IF file.size > MaxSizeFor(file.type)
                 THEN /\ dropAlert' = Some(IF IsImage(file.type)
                                           THEN "File size must be less than 1MB"
                                           ELSE "File size must be less than 5MB")
                      /\ UNCHANGED <<formFile, errors>>
                 ELSE /\ dropAlert' = None
                      /\ HandleFileChange(Some(file))
    ELSE /\ dropAlert' = None
         /\ UNCHANGED <<formFile, errors>>

\* a payload is released over the zone
HandleFileDrop ==
    /\ FormViewShown
    /\ \E item \in DropPayloads : FileDrop(item)
    /\ UNCHANGED <<isOpen, formLink, submissionResult, isSubmitting, showMediaViewer,
                   pc, data, fileUrl, calls, storage, db, alerts, submits, validVars,
                   viewerVars>>

\* event.target.files?.[0] of the hidden file input: any file, or none
PickedFiles == {None} \cup {Some(f) : f \in UserFiles}

\* the change handler of the hidden file input
HandleInputChange ==
    /\ FormViewShown
    /\ \E file \in PickedFiles : HandleFileChange(file)
    /\ UNCHANGED <<isOpen, formLink, submissionResult, isSubmitting, showMediaViewer,
                   pc, data, fileUrl, calls, storage, db, alerts, dropAlert, submits,
                   validVars, viewerVars>>

\* ------------------------------- the upload zone handed one candidate
\* the form view with any file selected so far, before the zone is handed
\* a candidate
InitZone ==
    /\ vData = NoData
    /\ vIssues = None
    /\ offered = None
    /\ ViewerInit
    /\ isOpen = TRUE
    /\ formLink \in {None, Some(GoodLink), Some(BadLink)}
    /\ formFile \in PickedFiles
    /\ errors = {e \in Validate([proofLink |-> formLink, file |-> formFile]) :
                    e.path \in {"proofLink", "file"}}
    /\ submissionResult = None
    /\ isSubmitting = FALSE
    /\ showMediaViewer = FALSE
    /\ pc = "idle"
    /\ data = NoData
    /\ fileUrl = None
    /\ calls = <<>>
    /\ storage = {}
    /\ db = {}
    /\ alerts = <<>>
    /\ dropAlert = None
    /\ submits = 0

zoneRest == <<vData, vIssues, isOpen, formLink, submissionResult, isSubmitting,
              showMediaViewer, pc, data, fileUrl, calls, storage, db, alerts,
              submits, viewerVars>>

\* the candidate arrives by drag-and-drop
ZoneDrop ==
    /\ offered = None
    /\ \E item \in DropPayloads :
         /\ offered' = Some([via |-> "drop", files |-> item])
         /\ FileDrop(item)
    /\ UNCHANGED zoneRest

\* the candidate arrives through the native file picker
ZonePick ==
    /\ offered = None
    /\ \E file \in PickedFiles :
         /\ offered' = Some([via |-> "picker", files |-> file])
         /\ HandleFileChange(file)
    /\ UNCHANGED <<dropAlert, zoneRest>>

NextZone == ZoneDrop \/ ZonePick

SpecZone == InitZone /\ [][NextZone]_vars

\* ------------------------------------------------------------ the dialog
\* the MediaViewer is rendered inside the DialogContent, under a result with
\* a file URL: when either goes it is unmounted, and the next mount starts
\* from its useState defaults
UnmountMediaViewer ==
    /\ imageScale' = ScaleOne
    /\ imageRotation' = 0
    /\ panPosition' = [x |-> 0, y |-> 0]
    /\ isDragging' = FALSE
    /\ dragStart' = [x |-> 0, y |-> 0]
    /\ isLoading' = TRUE

\* DialogTrigger: onOpenChange(true)
OpenDialog ==
    /\ ~isOpen
    /\ isOpen' = TRUE
    /\ UNCHANGED <<formLink, formFile, errors, submissionResult, isSubmitting,
                   showMediaViewer, pc, data, fileUrl, calls, storage, db, alerts,
                   dropAlert, submits, validVars, viewerVars>>

\* Escape, a click outside or the dialog's own close button: onOpenChange(false)
DismissDialog ==
    /\ isOpen
    /\ ~ViewerShown
    /\ isOpen' = FALSE
    /\ UnmountMediaViewer
    /\ UNCHANGED <<formLink, formFile, errors, submissionResult, isSubmitting,
                   showMediaViewer, pc, data, fileUrl, calls, storage, db, alerts,
                   dropAlert, submits, validVars>>

\* Cancel (form view, disabled while submitting) and Close (success view)
HandleClose ==
    /\ isOpen
    /\ ~ViewerShown
    /\ FormViewShown => ~isSubmitting
    /\ isOpen' = FALSE
    /\ submissionResult' = None
    /\ FormReset
    /\ UnmountMediaViewer
    /\ UNCHANGED <<isSubmitting, showMediaViewer, pc, data, fileUrl, calls, storage,
                   db, alerts, dropAlert, submits, validVars>>

\* mutant: Submit Another can be pressed under the open viewer
HandleNewSubmission_UnderViewer ==
    /\ SuccessViewShown
    /\ submissionResult' = None
    /\ UnmountMediaViewer
    /\ UNCHANGED <<isOpen, formLink, formFile, errors, isSubmitting, showMediaViewer,
                   pc, data, fileUrl, calls, storage, db, alerts, dropAlert, submits,
                   validVars>>

\* Submit Another
HandleNewSubmission ==
    /\ SuccessViewShown
    /\ ~ViewerShown
    /\ submissionResult' = None
    /\ UnmountMediaViewer
    /\ UNCHANGED <<isOpen, formLink, formFile, errors, isSubmitting, showMediaViewer,
                   pc, data, fileUrl, calls, storage, db, alerts, dropAlert, submits,
                   validVars>>

\* View File: onClick={() => setShowMediaViewer(true)}
ViewFile ==
    /\ ViewFileOffered
    /\ ~ViewerShown
    /\ showMediaViewer' = TRUE
    /\ UNCHANGED <<isOpen, formLink, formFile, errors, submissionResult, isSubmitting,
                   pc, data, fileUrl, calls, storage, db, alerts, dropAlert, submits,
                   validVars, viewerVars>>

\* ----------------------------------------------------------- MediaViewer
\* mutant: the loading flag is left as it is
ResetImageControls_KeepsLoading ==
    /\ imageScale' = ScaleOne
    /\ imageRotation' = 0
    /\ panPosition' = [x |-> 0, y |-> 0]
    /\ isDragging' = FALSE
    /\ UNCHANGED <<isLoading, dragStart>>

ResetImageControls ==
    /\ imageScale' = ScaleOne
    /\ imageRotation' = 0
    /\ panPosition' = [x |-> 0, y |-> 0]
    /\ isDragging' = FALSE
    /\ isLoading' = TRUE
    /\ UNCHANGED dragStart

\* mutant: onClose() alone
ViewerHandleClose_NoReset ==
    /\ ViewerShown
    /\ showMediaViewer' = FALSE
    /\ UNCHANGED <<isOpen, formLink, formFile, errors, submissionResult, isSubmitting,
                   pc, data, fileUrl, calls, storage, db, alerts, dropAlert, submits,
                   validVars, viewerVars>>

\* the viewer's handleClose: resetImageControls(), then onClose()
ViewerHandleClose ==
    /\ ViewerShown
    /\ ResetImageControls
    /\ showMediaViewer' = FALSE
    /\ UNCHANGED <<isOpen, formLink, formFile, errors, submissionResult, isSubmitting,
                   pc, data, fileUrl, calls, storage, db, alerts, dropAlert, submits,
                   validVars>>

\* ------------------------------------------- the submission form
Init == ValidInit /\ FormInit /\ ViewerInit

Next == \/ OpenDialog
        \/ DismissDialog
        \/ HandleClose
        \/ HandleNewSubmission
        \/ HandleLinkChange
        \/ HandleFileDrop
        \/ HandleInputChange
        \/ Submit
        \/ UploadReturns
        \/ InsertReturns
        \/ ViewFile
        \/ ViewerHandleClose

Spec == Init /\ [][Next]_vars

\* every awaited collaborator call returns or throws
SpecLive == Spec /\ WF_vars(UploadReturns) /\ WF_vars(InsertReturns)

\* the action buttons of the form view
SubmitDisabled == isSubmitting
CancelDisabled == isSubmitting

\* ------------------------------------------- the media viewer's controls
\* scales are counted in quarters (ScaleOne is scale 1): every scale the
\* handlers compute from 1 in steps of 0.25 is a whole number of quarters
ZoomStep == 1
MaxScale == 12
MinScale == 1
MaxOffset == 200

Min(a, b) == IF a < b THEN a ELSE b
Max(a, b) == IF a > b THEN a ELSE b

OctetStream == <<"a", "p", "p", "l", "i", "c", "a", "t", "i", "o", "n", "/",
                 "o", "c", "t", "e", "t", "-", "s", "t", "r", "e", "a", "m">>

\* the fileType prop: submissionResult.fileType || "application/octet-stream"
ViewerFileType ==
    IF IsSome(submissionResult) /\ TruthyStr(Get(submissionResult).fileType)
    THEN Get(Get(submissionResult).fileType)
    ELSE OctetStream

ViewerIsImage == IsImage(ViewerFileType)
ViewerIsVideo == IsVideo(ViewerFileType)

\* mutant: no upper clamp
ZoomedIn_NoClamp(prev) == prev + ZoomStep

\* setImageScale((prev) => Math.min(prev + 0.25, 3))
ZoomedIn(prev) == Min(prev + ZoomStep, MaxScale)

\* Math.max(prev - 0.25, 0.25)
ZoomedOut(prev) == Max(prev - ZoomStep, MinScale)

\* mutant: only the upper clamp
Constrain_NoLowerClamp(v) == Min(MaxOffset, v)

\* Math.max(-maxOffset, Math.min(maxOffset, v))
Constrain(v) == Max(-MaxOffset, Min(MaxOffset, v))

Coords == {k * CoordStep : k \in 0..MaxCoordIdx}
Pointers == [x : Coords, y : Coords]

formOnly == <<isOpen, formLink, formFile, errors, submissionResult, isSubmitting,
              showMediaViewer, pc, data, fileUrl, calls, storage, db, alerts,
              dropAlert, submits>>

HandleZoomIn ==
    /\ ViewerShown
    /\ ViewerIsImage
    /\ imageScale' = ZoomedIn(imageScale)
    /\ UNCHANGED <<imageRotation, panPosition, isDragging, dragStart, isLoading,
                   formOnly, validVars>>

\* mutant: zooming out keeps the pan
PanAfterZoomOut_KeepsPan(newScale, pan) == pan

\* if (newScale <= 1) setPanPosition({ x: 0, y: 0 })
PanAfterZoomOut(newScale, pan) ==
    IF newScale <= ScaleOne THEN [x |-> 0, y |-> 0] ELSE pan

HandleZoomOut ==
    /\ ViewerShown
    /\ ViewerIsImage
    /\ LET newScale == ZoomedOut(imageScale)
       IN /\ imageScale' = newScale
          /\ panPosition' = PanAfterZoomOut(newScale, panPosition)
    /\ UNCHANGED <<imageRotation, isDragging, dragStart, isLoading, formOnly,
                   validVars>>

\* mutant: the angle is not reduced
Rotated_NoWrap(prev) == prev + 90

\* setImageRotation((prev) => (prev + 90) % 360)
Rotated(prev) == (prev + 90) % 360

HandleRotate ==
    /\ ViewerShown
    /\ ViewerIsImage
    /\ imageRotation' = Rotated(imageRotation)
    /\ UNCHANGED <<imageScale, panPosition, isDragging, dragStart, isLoading,
                   formOnly, validVars>>

HandleReset ==
    /\ ViewerShown
    /\ ViewerIsImage
    /\ imageScale' = ScaleOne
    /\ imageRotation' = 0
    /\ panPosition' = [x |-> 0, y |-> 0]
    /\ UNCHANGED <<isDragging, dragStart, isLoading, formOnly, validVars>>

\* mutant: the anchor is the pointer position itself
BeginPan_AnchorAtPointer(client) ==
    /\ isDragging' = TRUE
    /\ dragStart' = [x |-> client.x, y |-> client.y]
    /\ UNCHANGED panPosition

\* the press of handleMouseDown
BeginPan(client) ==
    /\ isDragging' = TRUE
    /\ dragStart' = [x |-> client.x - panPosition.x, y |-> client.y - panPosition.y]
    /\ UNCHANGED panPosition

\* the move of handleMouseMove
UpdatePan(client) ==
    /\ panPosition' = [x |-> Constrain(client.x - dragStart.x),
                       y |-> Constrain(client.y - dragStart.y)]
    /\ UNCHANGED <<isDragging, dragStart>>

dragVars == <<isDragging, dragStart, panPosition>>

\* handleMouseDown(e)
MouseDown(e) ==
    IF ViewerIsImage /\ imageScale > ScaleOne
    THEN BeginPan(e)
    ELSE UNCHANGED dragVars

\* mutant: a drag goes on at any scale
MouseMove_AnyScale(e) ==
    IF isDragging
    THEN UpdatePan(e)
    ELSE UNCHANGED dragVars

\* handleMouseMove(e)
MouseMove(e) ==
    IF isDragging /\ imageScale > ScaleOne
    THEN UpdatePan(e)
    ELSE UNCHANGED dragVars

HandleMouseDown ==
    /\ ViewerShown
    /\ \E e \in Pointers : MouseDown(e)
    /\ UNCHANGED <<imageScale, imageRotation, isLoading, formOnly, validVars>>

HandleMouseMove ==
    /\ ViewerShown
    /\ \E e \in Pointers : MouseMove(e)
    /\ UNCHANGED <<imageScale, imageRotation, isLoading, formOnly, validVars>>

HandleMouseUp ==
    /\ ViewerShown
    /\ isDragging' = FALSE
    /\ UNCHANGED <<imageScale, imageRotation, panPosition, dragStart, isLoading,
                   formOnly, validVars>>

HandleMouseLeave ==
    /\ ViewerShown
    /\ isDragging' = FALSE
    /\ UNCHANGED <<imageScale, imageRotation, panPosition, dragStart, isLoading,
                   formOnly, validVars>>

\* e.touches: one or two fingers, the first at a pointer position
TouchCounts == {1, 2}

\* handleTouchStart(e): touch is e.touches[0], n is e.touches.length
TouchStart(touch, n) ==
    IF ViewerIsImage /\ imageScale > ScaleOne /\ n = 1
    THEN /\ isDragging' = TRUE
         /\ dragStart' = [x |-> touch.x - panPosition.x,
                          y |-> touch.y - panPosition.y]
         /\ UNCHANGED panPosition
    ELSE UNCHANGED dragVars

\* mutant: the touch move stores the offset as it is
TouchMove_NoClamp(touch, n) ==
    IF isDragging /\ imageScale > ScaleOne /\ n = 1
    THEN /\ panPosition' = [x |-> touch.x - dragStart.x, y |-> touch.y - dragStart.y]
         /\ UNCHANGED <<isDragging, dragStart>>
    ELSE UNCHANGED dragVars

\* handleTouchMove(e), with its own maxOffset of 200
TouchMove(touch, n) ==
    IF isDragging /\ imageScale > ScaleOne /\ n = 1
    THEN LET newX == touch.x - dragStart.x
             newY == touch.y - dragStart.y
             maxOffset == 200
         IN /\ panPosition' = [x |-> Max(-maxOffset, Min(maxOffset, newX)),
                               y |-> Max(-maxOffset, Min(maxOffset, newY))]
            /\ UNCHANGED <<isDragging, dragStart>>
    ELSE UNCHANGED dragVars

HandleTouchStart ==
    /\ ViewerShown
    /\ \E e \in Pointers, n \in TouchCounts : TouchStart(e, n)
    /\ UNCHANGED <<imageScale, imageRotation, isLoading, formOnly, validVars>>

HandleTouchMove ==
    /\ ViewerShown
    /\ \E e \in Pointers, n \in TouchCounts : TouchMove(e, n)
    /\ UNCHANGED <<imageScale, imageRotation, isLoading, formOnly, validVars>>

HandleTouchEnd ==
    /\ ViewerShown
    /\ isDragging' = FALSE
    /\ UNCHANGED <<imageScale, imageRotation, panPosition, dragStart, isLoading,
                   formOnly, validVars>>

\* onLoad / onError of the img, onLoadedData / onError of the video
MediaSettled ==
    /\ ViewerShown
    /\ ViewerIsImage \/ ViewerIsVideo
    /\ isLoading' = FALSE
    /\ UNCHANGED <<imageScale, imageRotation, panPosition, isDragging, dragStart,
                   formOnly, validVars>>

\* the viewer as mounted by the success view of a submission whose file has
\* one of the mime types
ViewedResult(t) ==
    [id |-> Some(1), proofLink |-> None, fileName |-> Some("f"),
     fileUrl |-> Some(PublicUrl(1)), fileSize |-> Some(0), fileType |-> Some(t),
     status |-> "pending"]

InitViewer ==
    /\ ValidInit
    /\ ViewerInit
    /\ isOpen = TRUE
    /\ formLink = None
    /\ formFile = None
    /\ errors = {}
    /\ \E t \in MimeTypes : submissionResult = Some(ViewedResult(t))
    /\ isSubmitting = FALSE
    /\ showMediaViewer = FALSE
    /\ pc = "idle"
    /\ data = NoData
    /\ fileUrl = None
    /\ calls = <<>>
    /\ storage = {1}
    /\ db = {1}
    /\ alerts = <<>>
    /\ dropAlert = None
    /\ submits = 1

NextViewer == \/ ViewFile
              \/ ViewerHandleClose
              \/ MediaSettled
              \/ HandleZoomIn
              \/ HandleZoomOut
              \/ HandleRotate
              \/ HandleReset
              \/ HandleMouseDown
              \/ HandleMouseMove
              \/ HandleMouseUp
              \/ HandleMouseLeave
              \/ HandleTouchStart
              \/ HandleTouchMove
              \/ HandleTouchEnd

SpecViewer == InitViewer /\ [][NextViewer]_vars

\* what the open viewer renders
LoadingOverlayShown == ViewerShown /\ isLoading
ControlsOffered == ViewerShown /\ ViewerIsImage
PreviewUnavailableRendered == ViewerShown /\ ~ViewerIsImage /\ ~ViewerIsVideo

\* mutant: the translate is the pan itself
Translate_Unscaled(pan, scale) ==
    [x |-> [num |-> pan.x, den |-> 1], y |-> [num |-> pan.y, den |-> 1]]

\* translate(${panPosition.x / imageScale}px, ${panPosition.y / imageScale}px)
\* as exact fractions: the scale is scale / 4, so pan / scale = 4 * pan / scale
Translate(pan, scale) ==
    [x |-> [num |-> 4 * pan.x, den |-> scale], y |-> [num |-> 4 * pan.y, den |-> scale]]

\* the style of the img: scale(imageScale) rotate(imageRotation) translate(...)
ImgTransform == [scale |-> [num |-> imageScale, den |-> 4],
                 rotate |-> imageRotation,
                 translate |-> Translate(panPosition, imageScale)]

\* ------------------------------- the form and the viewer in one session
\* a session that has a first submission with an image or a video behind
\* it and its result on display
InitSession == InitViewer /\ (ViewerIsImage \/ ViewerIsVideo)

NextSession == Next \/ NextViewer

SpecSession == InitSession /\ [][NextSession]_vars

\* ======================================================================
\* Properties of the validation rules (checked under SpecValidate)
\* ======================================================================
Parsed == IsSome(vIssues)
Issues == Get(vIssues)

\* C6: an input whose proofLink is absent or empty and whose file is absent
\* yields MissingInput, reported on the form-level path "root" and on no
\* field, and nothing else.
C6_MissingInput ==
    (Parsed /\ ~TruthyStr(vData.proofLink) /\ ~IsSome(vData.file))
        => /\ Issues = {[path |-> "root", kind |-> "MissingInput"]}
           /\ ~SubmitAllowed(vData)

C6_Witness == /\ Parsed
              /\ vData.proofLink = Some(<<>>)
              /\ ~IsSome(vData.file)
              /\ MissingInput \in Issues

\* C7: InvalidUrl is reported, on the link field, exactly when proofLink is
\* present, non-empty and not a well-formed absolute URL, whatever the file
\* is; it blocks the submission.
C7_InvalidUrl ==
    Parsed =>
        /\ ([path |-> "proofLink", kind |-> "InvalidUrl"] \in Issues
              <=> (/\ IsSome(vData.proofLink)
                   /\ Get(vData.proofLink) # <<>>
                   /\ ~IsUrl(Get(vData.proofLink))))
        /\ \A i \in Issues : i.kind = "InvalidUrl" => i.path = "proofLink"
        /\ InvalidUrl \in Issues => ~SubmitAllowed(vData)

C7_Witness == /\ Parsed
              /\ vData.proofLink = Some(<<"h", " ", "h">>)
              /\ IsSome(vData.file)
              /\ FileRefine(vData)
              /\ Issues = {InvalidUrl}

\* C8: a file whose type starts with neither image/ nor video/ yields
\* UnsupportedFileType and never FileTooLarge, whatever its size.
C8_UnsupportedFileType ==
    (/\ Parsed
     /\ IsSome(vData.file)
     /\ ~StartsWith(Get(vData.file).type, ImagePrefix)
     /\ ~StartsWith(Get(vData.file).type, VideoPrefix))
        => /\ UnsupportedFileType \in Issues
           /\ FileTooLarge \notin Issues

C8_Witness == /\ Parsed
              /\ IsSome(vData.file)
              /\ Get(vData.file).type = MimePdf
              /\ Get(vData.file).size > VideoMaxSize
              /\ UnsupportedFileType \in Issues

\* C9: an image file yields FileTooLarge iff its size exceeds 1,048,576
\* bytes, a video file iff its size exceeds 5,242,880 bytes; a file of
\* exactly the limit raises no issue on the file field.
C9_FileTooLarge ==
    (Parsed /\ IsSome(vData.file)) =>
        LET f == Get(vData.file)
        IN /\ StartsWith(f.type, ImagePrefix)
                => (FileTooLarge \in Issues <=> f.size > 1048576)
           /\ StartsWith(f.type, VideoPrefix)
                => (FileTooLarge \in Issues <=> f.size > 5242880)
           /\ (\/ StartsWith(f.type, ImagePrefix) /\ f.size = 1048576
               \/ StartsWith(f.type, VideoPrefix) /\ f.size = 5242880)
                => \A i \in Issues : i.path # "file"

C9_Witness == /\ Parsed
              /\ IsSome(vData.file)
              /\ Get(vData.file).type = MimeMp4
              /\ Get(vData.file).size = VideoMaxSize + 1
              /\ FileTooLarge \in Issues


\* ======================================================================
\* Properties of the submission pipeline (checked under Spec)
\* ======================================================================
\* calls holds the collaborator calls of the latest submit, each with what
\* the collaborator answered once it has returned.
CallReturned(i) == i <= Len(calls) /\ IsSome(calls[i].result)
Answer(i) == Get(calls[i].result)
UploadErrored == /\ Len(calls) >= 1
                 /\ calls[1].op = "upload"
                 /\ CallReturned(1)
                 /\ Answer(1).kind # "ok"
UploadSucceeded == /\ Len(calls) >= 1
                   /\ calls[1].op = "upload"
                   /\ CallReturned(1)
                   /\ Answer(1).kind = "ok"

\* the message of a collaborator's failure, as its wrapper reports it
UploadMessage(answer) ==
    IF answer.kind = "throws" THEN "Failed to upload file" ELSE answer.msg
InsertMessage(answer) ==
    IF answer.kind = "throws" THEN "Failed to save proof record" ELSE answer.msg

\* C1: with a file present the upload is called first, and whenever the
\* upload returned an error the insert is never called for that submit, the
\* upload's message is alerted and no SubmissionResult exists.
C1_UploadErrorAborts ==
    /\ \A i \in 1..Len(calls) :
         (calls[i].op = "insert" /\ IsSome(calls[i].arg.fileName))
            => (i = 2 /\ calls[1].op = "upload" /\ CallReturned(1))
    /\ UploadErrored
         => /\ Len(calls) = 1
            /\ alerts = <<Alert("File upload failed: ", UploadMessage(Answer(1)))>>
            /\ ~IsSome(submissionResult)

\* C1, the part that holds: an upload error with a non-empty message aborts.
C1_NamedUploadErrorAborts ==
    (UploadErrored /\ UploadMessage(Answer(1)) # "")
        => /\ Len(calls) = 1
           /\ alerts = <<Alert("File upload failed: ", UploadMessage(Answer(1)))>>
           /\ ~IsSome(submissionResult)

\* C1: the aborting step leaves the form's contents as they were.
C1_AbortKeepsForm ==
    [][(pc = "upload" /\ pc' = "idle") => UNCHANGED <<formLink, formFile>>]_vars

\* C2: when the upload succeeded and the insert then failed, the insert's
\* message is alerted, no SubmissionResult exists and the uploaded object is
\* still in the bucket.
InsertFailedAfterUpload ==
    /\ UploadSucceeded
    /\ Len(calls) = 2
    /\ calls[2].op = "insert"
    /\ CallReturned(2)
    /\ Answer(2).kind \in {"error", "throws", "rejected"}

C2_InsertErrorAfterUpload ==
    InsertFailedAfterUpload
        => /\ Len(alerts) = 1
           /\ alerts[1].msg = InsertMessage(Answer(2))
           /\ alerts[1].text = IF Answer(2).kind = "rejected"
                               THEN "Submission failed: " ELSE "Database error: "
           /\ ~IsSome(submissionResult)
           /\ submits \in storage
           /\ pc = "idle"

C2_Witness == /\ InsertFailedAfterUpload
              /\ Answer(2).kind = "error"
              /\ alerts = <<Alert("Database error: ", "denied")>>
              /\ storage = {1}

\* C3: a SubmissionResult exists only when every collaborator call of its
\* submit succeeded; it carries status pending, the id the insert returned,
\* the link and file metadata handed to the insert, and as fileUrl the URL
\* the upload returned (none without an upload).
ResultOfCalls ==
    LET r == Get(submissionResult)
        n == Len(calls)
    IN /\ n >= 1
       /\ \A i \in 1..n : CallReturned(i) /\ Answer(i).kind = "ok"
       /\ calls[n].op = "insert"
       /\ r.status = "pending"
       /\ r.id = Some(Answer(n).id)
       /\ r.proofLink = calls[n].arg.proofLink
       /\ r.fileName = calls[n].arg.fileName
       /\ r.fileSize = calls[n].arg.fileSize
       /\ r.fileType = calls[n].arg.fileType
       /\ r.fileUrl = calls[n].arg.fileUrl
       /\ IF n = 2
          THEN /\ calls[1].op = "upload"
               /\ r.fileName = Some(calls[1].arg.name)
               /\ r.fileUrl = Some(PublicUrl(submits))
               /\ submits \in storage
          ELSE r.fileUrl = None /\ r.fileName = None

C3_ResultOnlyAfterSuccess == IsSome(submissionResult) => ResultOfCalls

\* C3: the step that creates the result clears the form.
C3_CreationClearsForm ==
    [][(~IsSome(submissionResult) /\ IsSome(submissionResult'))
          => (formLink' = None /\ formFile' = None /\ errors' = {})]_vars

\* C4: a submit with a well-formed link and no file calls no upload, hands
\* the insert no file metadata and no fileUrl, and its result shows only the
\* link: no file, no View File action, no Media Viewer.
LinkOnlySubmit ==
    /\ Len(calls) >= 1
    /\ calls[1].op = "insert"
    /\ calls[1].arg.proofLink = Some(GoodLink)

C4_LinkOnly ==
    LinkOnlySubmit
        => /\ Len(calls) = 1
           /\ calls[1].arg.fileUrl = None
           /\ calls[1].arg.fileName = None
           /\ calls[1].arg.fileSize = None
           /\ calls[1].arg.fileType = None
           /\ IsSome(submissionResult)
                => /\ Get(submissionResult).proofLink = Some(GoodLink)
                   /\ Get(submissionResult).fileName = None
                   /\ Get(submissionResult).fileUrl = None
                   /\ isOpen => ShowsLink
                   /\ ~ShowsFile
                   /\ ~ViewFileOffered
                   /\ ~MediaViewerMounted

C4_Witness == /\ LinkOnlySubmit
              /\ SuccessViewShown
              /\ storage = {}
              /\ Get(submissionResult).id = Some(1)

\* C5: a submit attempt runs the pipeline exactly when the input is
\* acceptable: at least one field set, the link absent, empty or a
\* well-formed URL, the file absent, an image of at most 1 MiB or a video of
\* at most 5 MiB.  A refused attempt calls no collaborator and creates no
\* SubmissionResult.
Acceptable(link, file) ==
    /\ TruthyStr(link) \/ IsSome(file)
    /\ TruthyStr(link) => IsUrl(Get(link))
    /\ IsSome(file) =>
         \/ StartsWith(Get(file).type, ImagePrefix) /\ Get(file).size <= 1048576
         \/ StartsWith(Get(file).type, VideoPrefix) /\ Get(file).size <= 5242880

C5_BothAccepted == /\ pc = "upload"
                   /\ data = [proofLink |-> Some(GoodLink), file |-> Some(PngSmall)]

\* ======================================================================
\* Properties of the media viewer (checked under SpecViewer)
\* ======================================================================
\* C10: the scale stays within [0.25, 3.0] (1 to 12 quarters) in every
\* reachable viewer state; at 3.0 a zoom in, and at 0.25 a zoom out, leave
\* it where it is.
C10_ScaleBounds ==
    /\ 1 <= imageScale
    /\ imageScale <= 12
    /\ imageScale = 12 => ZoomedIn(imageScale) = 12
    /\ imageScale = 1 => ZoomedOut(imageScale) = 1

C10_Witness == /\ imageScale = 12
               /\ panPosition # [x |-> 0, y |-> 0]
               /\ imageRotation = 90

C10_WitnessMin == imageScale = 1 /\ ViewerShown


\* ======================================================================
\* Properties of the viewer's pan, rotation and zoom (checked under SpecViewer)
Origin == [x |-> 0, y |-> 0]

\* v brought into [-200, 200]
Clamped(v) == IF v < -MaxOffset THEN -MaxOffset
              ELSE IF v > MaxOffset THEN MaxOffset ELSE v

PanInRange(p) == /\ p.x \in (-MaxOffset)..MaxOffset
                 /\ p.y \in (-MaxOffset)..MaxOffset

\* C11: pan.x and pan.y always lie in [-200, 200]; a pan is stored only
\* during a drag, as pointer - anchor clamped per axis, or set back to {0,0}
C11_PanClamped ==
    [][/\ PanInRange(panPosition)
       /\ PanInRange(panPosition')
       /\ panPosition' # panPosition =>
            \/ panPosition' = Origin
            \/ /\ isDragging
               /\ \E e \in Pointers :
                    panPosition' = [x |-> Clamped(e.x - dragStart.x),
                                    y |-> Clamped(e.y - dragStart.y)]]_vars

\* a drag that was cut off at the lower limit on one axis and at the upper
\* limit on the other
C11_Witness == /\ isDragging
               /\ panPosition = [x |-> -MaxOffset, y |-> MaxOffset]

QuarterTurns == {0, 90, 180, 270}

\* C12: rotation is one of 0, 90, 180, 270; four quarter turns lead back to
\* the rotation they started from; rotation changes only by a quarter turn
\* that leaves scale and pan alone, or by a reset to the defaults
C12_Rotate ==
    [][/\ imageRotation \in QuarterTurns
       /\ imageRotation' \in QuarterTurns
       /\ Rotated(Rotated(Rotated(Rotated(imageRotation)))) = imageRotation
       /\ Rotated(imageRotation) # imageRotation
       /\ imageRotation' # imageRotation =>
            \/ /\ imageRotation' = (imageRotation + 90) % 360
               /\ imageScale' = imageScale
               /\ panPosition' = panPosition
            \/ /\ imageRotation' = 0
               /\ imageScale' = ScaleOne
               /\ panPosition' = Origin]_vars

\* three quarter turns of a zoomed and panned image
C12_Witness == /\ imageRotation = 270
               /\ imageScale > ScaleOne
               /\ panPosition # Origin

\* C13: a step that lowers the scale is a zoom out to max(scale - 0.25, 0.25)
\* which sets pan to {0,0} when the new scale is at most 1 and keeps pan
\* otherwise (or a reset to scale 1); at a scale of at most 1 pan is {0,0}
C13_ZoomOut ==
    [][/\ imageScale' <= ScaleOne => panPosition' = Origin
       /\ imageScale' < imageScale =>
            \/ /\ imageScale' = (IF imageScale - 1 < 1 THEN 1 ELSE imageScale - 1)
               /\ panPosition' = (IF imageScale' <= 4 THEN Origin ELSE panPosition)
            \/ /\ imageScale' = ScaleOne
               /\ panPosition' = Origin]_vars

\* scale 0.75 during a drag that was begun on a panned image: the zoom outs
\* since then have taken the pan away
C13_Witness == /\ imageScale = ScaleOne - 1
               /\ isDragging
               /\ dragStart.x = CoordStep - MaxOffset
               /\ panPosition = Origin

\* C14: a drag begins, and an anchor is recorded, only on an image at a
\* scale above 1, the anchor being pointer - pan, so that a move at the
\* press position stores the pan there already is; pan leaves {0,0} only
\* during a drag of an image at a scale above 1
C14_BeginPan ==
    [][/\ ((~isDragging /\ isDragging') \/ dragStart' # dragStart) =>
            /\ ViewerIsImage
            /\ imageScale > ScaleOne
            /\ panPosition' = panPosition
            /\ \E e \in Pointers :
                 /\ dragStart' = [x |-> e.x - panPosition.x,
                                  y |-> e.y - panPosition.y]
                 /\ [x |-> Clamped(e.x - dragStart'.x),
                     y |-> Clamped(e.y - dragStart'.y)] = panPosition
       /\ (panPosition' # panPosition /\ panPosition' # Origin) =>
            /\ isDragging
            /\ ViewerIsImage
            /\ imageScale > ScaleOne]_vars

\* a drag begun at the far pointer position on an image panned to the limit
C14_Witness == /\ isDragging
               /\ imageScale > ScaleOne
               /\ panPosition.x = MaxOffset
               /\ dragStart.x = CoordStep - MaxOffset


DefaultTransform == /\ imageScale = ScaleOne
                    /\ imageRotation = 0
                    /\ panPosition = Origin
                    /\ ~isDragging

\* ======================================================================
\* Properties of closing and reopening the viewer (checked under SpecSession)
\* C15: while the viewer is closed, and at the moment it is opened, scale is
\* 1, rotation 0, pan {0,0} and no drag is in progress
C15_ClosedViewerIsDefault ==
    [][/\ ~ViewerShown => DefaultTransform
       /\ ~ViewerShown' => DefaultTransform'
       /\ (~ViewerShown /\ ViewerShown') => DefaultTransform']_vars

\* the viewer closed after a drag on a panned image, its media still there
C15_Witness == /\ SuccessViewShown
               /\ ~showMediaViewer
               /\ dragStart.x = CoordStep - MaxOffset

\* the viewer open on the media of a second submission
C15_WitnessNewMedia == /\ ViewerShown
                       /\ Get(submissionResult).id = Some(2)

\* ======================================================================
\* Properties of the loading indicator (checked under SpecViewer)
\* C16: the loading flag is set while the viewer is closed and at the moment
\* it is opened; it is cleared only in the open viewer of an image or a
\* video, by a step that changes nothing else; it is set again only by
\* closing the viewer
C16_Loading ==
    [][/\ ~ViewerShown' => isLoading'
       /\ (~ViewerShown /\ ViewerShown') => isLoading'
       /\ (isLoading /\ ~isLoading') =>
            /\ ViewerShown
            /\ ViewerIsImage \/ ViewerIsVideo
            /\ UNCHANGED <<imageScale, imageRotation, panPosition, isDragging,
                           dragStart, formOnly>>
       /\ (~isLoading /\ isLoading') => ~ViewerShown']_vars

\* a video has signalled in the open viewer
C16_Witness == ViewerShown /\ ViewerIsVideo /\ ~isLoading

\* an image has signalled in a viewer that has been open before
C16_WitnessReopened == /\ ViewerShown
                       /\ ~isLoading
                       /\ DefaultTransform
                       /\ dragStart.x = CoordStep - MaxOffset

\* ======================================================================
\* Properties of content without a preview (checked under SpecViewer)
NoPreview == ViewerShown /\ ~ViewerIsImage /\ ~ViewerIsVideo

\* C17: with the viewer open on content that is neither image nor video the
\* "preview unavailable" block with its download button is rendered and not
\* under the loading overlay, and no control is offered
C17_PreviewUnavailable ==
    NoPreview => /\ PreviewUnavailableRendered
                 /\ ~LoadingOverlayShown
                 /\ ~ControlsOffered

\* the part of C17 about the controls: the block is rendered, no control is
\* offered, and nothing in the open viewer moves the transform
C17_NoControls ==
    [][(NoPreview /\ NoPreview') =>
          /\ PreviewUnavailableRendered
          /\ ~ControlsOffered
          /\ UNCHANGED <<imageScale, imageRotation, panPosition, isDragging,
                         dragStart>>]_vars

\* ======================================================================
\* Properties of the upload zone (checked under SpecZone and Spec)
\* the type/size check: an image of at most 1 MiB or a video of at most 5 MiB
PassesCheck(f) ==
    \/ StartsWith(f.type, ImagePrefix) /\ f.size <= 1048576
    \/ StartsWith(f.type, VideoPrefix) /\ f.size <= 5242880

DropStep == /\ offered = None
            /\ offered' # None
            /\ Get(offered').via = "drop"

Dropped == Get(offered').files

\* C18: a drop of no file, or of a first file that fails the check, shows a
\* message and leaves the selected file; a drop of a first file that
\* passes makes that file the selected one
C18_DropRejection ==
    [][DropStep =>
         IF Len(Dropped) = 0 \/ ~PassesCheck(Dropped[1])
         THEN dropAlert' # None /\ formFile' = formFile
         ELSE formFile' = Some(Dropped[1])]_vars

\* the part of C18 that holds: a rejected drop leaves the selected file, an
\* accepted one replaces it, and a first file that is too large is named so
C18_DropFrame ==
    [][DropStep =>
         IF Len(Dropped) = 0 \/ ~PassesCheck(Dropped[1])
         THEN /\ formFile' = formFile
              /\ (Len(Dropped) > 0 /\ CanDrop(Dropped)) => dropAlert' # None
         ELSE formFile' = Some(Dropped[1]) /\ dropAlert' = None]_vars

\* C19: a file the validation rules reject is never the selected file
C19_SelectedPassesCheck ==
    IsSome(formFile) => PassesCheck(Get(formFile))

\* the part of C19 that holds: by drag-and-drop a file becomes the selected
\* one if and only if it passes the check
C19_DropChecks ==
    [][(DropStep /\ Len(Dropped) > 0) =>
          (PassesCheck(Dropped[1]) <=> formFile' = Some(Dropped[1]))
          \/ formFile = Some(Dropped[1])]_vars

\* ======================================================================
\* Properties of discarding the result (checked under Spec)
\* C20: every step that closes the dialog leaves no SubmissionResult, and
\* a SubmissionResult on display is never exchanged for another
C20_CloseDiscardsResult ==
    [][/\ (isOpen /\ ~isOpen') => submissionResult' = None
       /\ (IsSome(submissionResult) /\ IsSome(submissionResult')) =>
            submissionResult' = submissionResult]_vars

\* the part of C20 that holds: a result is never exchanged for another
C20_ResultStable ==
    [][(IsSome(submissionResult) /\ IsSome(submissionResult')) =>
          submissionResult' = submissionResult]_vars


\* ======================================================================
\* Properties of a submission in flight (checked under Spec)
InFlight == pc # "idle"

\* C21: closing the dialog leaves a submission in flight as it is, and a
\* step of the submission that arrives while the dialog is closed changes
\* neither the SubmissionResult nor the form's values and errors
C21_CloseDuringSubmit ==
    [][/\ (isOpen /\ ~isOpen') => UNCHANGED <<pc, calls, data, fileUrl>>
       /\ (~isOpen /\ InFlight /\ pc' # pc) =>
            UNCHANGED <<submissionResult, formLink, formFile, errors>>]_vars

\* the part of C21 that holds: closing aborts nothing, and the calls go on
\* behind the closed dialog
C21_CloseDoesNotAbort ==
    [][/\ (isOpen /\ ~isOpen') => UNCHANGED <<pc, calls, data, fileUrl, isSubmitting>>
       /\ (~isOpen /\ pc = "upload" /\ pc' = "insert") =>
            /\ Len(calls') = 2
            /\ calls'[2].op = "insert"]_vars

\* the insert was called behind the closed dialog after a stored upload
C21_InsertBehindClosedDialog == /\ ~isOpen
                                /\ pc = "insert"
                                /\ Len(calls) = 2
                                /\ storage # {}

CallsOf(op) == {i \in 1..Len(calls) : calls[i].op = op}

\* C22: a submit calls the upload at most once and the insert at most once,
\* a call that failed is the last call of its submit, and between submits
\* no call is made or outstanding
C22_SingleAttempt ==
    /\ Cardinality(CallsOf("upload")) <= 1
    /\ Cardinality(CallsOf("insert")) <= 1
    /\ \A i \in 1..Len(calls) :
         (CallReturned(i) /\ Answer(i).kind # "ok") => i = Len(calls)
    /\ pc = "idle" => \A i \in 1..Len(calls) : CallReturned(i)

\* the part of C22 that holds: the same with the failures that carry a
\* message, and the call log grows only while a submit runs
C22_SingleAttemptNamed ==
    [][/\ Cardinality(CallsOf("upload")) <= 1
       /\ Cardinality(CallsOf("insert")) <= 1
       /\ \A i \in 1..Len(calls) :
            (/\ CallReturned(i)
             /\ Answer(i).kind # "ok"
             /\ Answer(i) # [kind |-> "error", msg |-> ""]) => i = Len(calls)
       /\ pc = "idle" => \A i \in 1..Len(calls) : CallReturned(i)
       /\ calls' # calls => (InFlight \/ submits' = submits + 1)
       /\ Len(calls') <= 2]_vars


\* ======================================================================
\* Mouse against touch (checked under SpecViewer)
notDragVars == <<imageScale, imageRotation, isLoading, formOnly, validVars>>

\* C23: from every reachable state, a press, a move and a release at a
\* pointer position lead to the same state whether they come from the mouse
\* or from one finger
C23_MouseAsTouch ==
    [][/\ UNCHANGED notDragVars =>
            \A e \in Pointers :
                /\ MouseDown(e) <=> TouchStart(e, 1)
                /\ MouseMove(e) <=> TouchMove(e, 1)
       /\ HandleMouseUp <=> HandleTouchEnd]_vars

\* a drag to both limits of a rotated image at the largest scale
C23_Witness == /\ isDragging
               /\ imageScale = MaxScale
               /\ imageRotation = 90
               /\ panPosition = [x |-> MaxOffset, y |-> -MaxOffset]

\* ======================================================================
\* The rendered transform (checked under SpecViewer)
\* a / b = c / d for fractions with non-zero denominators
SameFraction(p, q) == p.den # 0 /\ q.den # 0 /\ p.num * q.den = q.num * p.den
Times(p, q) == [num |-> p.num * q.num, den |-> p.den * q.den]
Whole(v) == [num |-> v, den |-> 1]

\* C24: the img transform is scale, rotation and a translate whose amount
\* times the scale is the pan on each axis, the scale being at least 0.25
C24_TranslateUnscaled ==
    ControlsOffered =>
        /\ ImgTransform.scale.num >= 1
        /\ ImgTransform.translate.x.den # 0
        /\ ImgTransform.translate.y.den # 0
        /\ ImgTransform.rotate = imageRotation
        /\ SameFraction(Times(ImgTransform.translate.x, ImgTransform.scale),
                        Whole(panPosition.x))
        /\ SameFraction(Times(ImgTransform.translate.y, ImgTransform.scale),
                        Whole(panPosition.y))

\* a pan to the limit at scale 1.75, where the translate is no whole number
C24_Witness == /\ ControlsOffered
               /\ imageScale = 7
               /\ panPosition.x = MaxOffset
               /\ panPosition.y = CoordStep - MaxOffset

\* ======================================================================
\* Pan and scale (checked under SpecViewer)
\* C26: at a scale of at most 1 the pan is {0,0}
C26_PanOnlyAboveOne == imageScale <= ScaleOne => panPosition = Origin

\* a drag still active at scale 1 on a rotated image, begun when the image
\* was panned to the limit
C26_Witness == /\ imageScale = ScaleOne
               /\ isDragging
               /\ imageRotation = 180
               /\ dragStart.y = CoordStep - MaxOffset


\* ======================================================================
\* The submitting flag (checked under SpecLive)
Threw(answer) == answer.kind \in {"throws", "rejected", "rejectedValue"}

\* C25: the submitting flag is set exactly while a submission is in flight
\* and always becomes false again; a step that ends a submission on a
\* thrown exception adds an alert and creates no SubmissionResult; Submit
\* and Cancel can be used in the form view exactly when the flag is false
C25_SubmittingFlag ==
    /\ [](isSubmitting <=> InFlight)
    /\ (isSubmitting ~> ~isSubmitting)
    /\ [][(InFlight /\ ~InFlight' /\ Threw(Get(calls'[Len(calls')].result))) =>
             /\ Len(alerts') = Len(alerts) + 1
             /\ ~IsSome(submissionResult')]_vars
    /\ [](SubmitDisabled <=> isSubmitting)
    /\ [](CancelDisabled <=> isSubmitting)
    /\ []((FormViewShown /\ submits < MaxSubmits) => (ENABLED Submit <=> ~isSubmitting))
    /\ [](FormViewShown => (ENABLED HandleClose <=> ~isSubmitting))

\* a submission ended by a rejected insert after a stored upload: the flag
\* is false again, one alert, no result
C25_Witness == /\ ~isSubmitting
               /\ ~InFlight
               /\ Len(calls) = 2
               /\ CallReturned(2)
               /\ Answer(2).kind = "rejected"
               /\ Len(alerts) = 1
               /\ ~IsSome(submissionResult)


====
